---------------------------- MODULE Spec2Model ----------------------------
(***************************************************************************)
(* cpljson (src/src/codeplane/bin/cpljson.c): the sidecar cache CLI.       *)
(*                                                                         *)
(* C strings and buffers are sequences of bytes (0..255).  A literal of    *)
(* the source is written S("...").  The buffer sizes of the source are     *)
(* scaled down (see the bounds below); their relations are kept.           *)
(***************************************************************************)
EXTENDS Integers, Sequences, FiniteSets, TLC

(***************************************************************************)
(* Scaled sizes.  Source values: BUF_SIZE 256*1024 (line 52),              *)
(* MAX_PATH_LEN 4096 (line 53), MAX_URL_LEN 8192 (line 54), enc1/enc2      *)
(* 1024 (line 272), token 512 (line 268), req MAX_URL_LEN + 512 (line      *)
(* 166), line 256 (line 101), buf 512 (line 109).  Kept relations: the     *)
(* slice prefix plus two full encoded values fits in url; req is url plus  *)
(* REQ_EXTRA; the fixed request text is shorter than REQ_EXTRA.            *)
(***************************************************************************)
BUF_SIZE == 24
MAX_PATH_LEN == 48
MAX_URL_LEN == 64
ENC_SIZE == 8
TOKEN_SIZE == 16
REQ_EXTRA == 96
LINE_SIZE == 12
JSON_BUF_SIZE == 20

(* Bounds of the pure-function specifications. *)
MaxSrcLen == 3
MaxDstSize == 14
MaxPeerFrags == 3
MaxJsonFrags == 3
MaxYamlFrags == 2

Min(a, b) == IF a < b THEN a ELSE b

(***************************************************************************)
(* Bytes and C literals.                                                   *)
(***************************************************************************)
AsciiLo == " !\"#$%&'()*+,-./0123456789:;<=>?@ABCDEFGHIJKLMNOPQRSTUVWXYZ[\\]^_"
AsciiHi == "abcdefghijklmnopqrstuvwxyz{|}~"

\* The byte value of each one-character literal.
Ord ==
    [c \in {"\n", "\r", "\t"}
            \cup {SubSeq(AsciiLo, i, i) : i \in 1..Len(AsciiLo)}
            \cup {SubSeq(AsciiHi, i, i) : i \in 1..Len(AsciiHi)} |->
        IF c = "\n" THEN 10
        ELSE IF c = "\r" THEN 13
        ELSE IF c = "\t" THEN 9
        ELSE IF \E i \in 1..Len(AsciiLo) : SubSeq(AsciiLo, i, i) = c
             THEN 31 + CHOOSE i \in 1..Len(AsciiLo) : SubSeq(AsciiLo, i, i) = c
             ELSE 96 + CHOOSE i \in 1..Len(AsciiHi) : SubSeq(AsciiHi, i, i) = c]

\* The bytes of a string literal (without the terminator).
S(str) == [i \in 1..Len(str) |-> Ord[SubSeq(str, i, i)]]

Take(s, n) == SubSeq(s, 1, Min(n, Len(s)))
Drop(s, n) == SubSeq(s, n + 1, Len(s))

\* A char array read as a C string: the bytes before the first NUL.
CStr(b) ==
    IF \E i \in 1..Len(b) : b[i] = 0
    THEN SubSeq(b, 1, (CHOOSE i \in 1..Len(b) :
                          b[i] = 0 /\ \A j \in 1..(i - 1) : b[j] # 0) - 1)
    ELSE b

\* What snprintf(dst, size, ...) stores of the formatted text s (size > 0);
\* its return value is Len(s), the length that would have been written.
Stored(s, size) == Take(s, size - 1)

\* strstr(h, n): 1-based index of the first occurrence of n in h, 0 if none.
Strstr(h, n) ==
    LET hits == {i \in 1..(Len(h) - Len(n) + 1) : SubSeq(h, i, i + Len(n) - 1) = n}
    IN IF hits = {} THEN 0 ELSE CHOOSE i \in hits : \A j \in hits : i <= j

\* strchr(h, c) / strrchr(h, c): 1-based index, 0 if none.
Strchr(h, c) ==
    LET hits == {i \in 1..Len(h) : h[i] = c}
    IN IF hits = {} THEN 0 ELSE CHOOSE i \in hits : \A j \in hits : i <= j

Strrchr(h, c) ==
    LET hits == {i \in 1..Len(h) : h[i] = c}
    IN IF hits = {} THEN 0 ELSE CHOOSE i \in hits : \A j \in hits : i >= j

IsSpace(c) == c \in {32, 9, 10, 11, 12, 13}
IsDigit(c) == c \in 48..57

RECURSIVE SkipSpace(_, _)
SkipSpace(s, i) ==
    IF i <= Len(s) /\ IsSpace(s[i]) THEN SkipSpace(s, i + 1) ELSE i

RECURSIVE DigitsValue(_, _, _)
DigitsValue(s, i, acc) ==
    IF i <= Len(s) /\ IsDigit(s[i])
    THEN DigitsValue(s, i + 1, 10 * acc + (s[i] - 48))
    ELSE acc

\* The integer conversion shared by atoi and scanf's %d: leading white
\* space, an optional sign, decimal digits.  ok is FALSE without a digit.
\* (Inputs keep the digit strings short of int overflow.)
ParseInt(s) ==
    LET i == SkipSpace(s, 1)
        signed == i <= Len(s) /\ s[i] \in {43, 45}
        j == IF signed THEN i + 1 ELSE i
        ok == j <= Len(s) /\ IsDigit(s[j])
        mag == DigitsValue(s, j, 0)
    IN [ok |-> ok,
        val |-> IF ~ok THEN 0 ELSE IF signed /\ s[i] = 45 THEN 0 - mag ELSE mag]

Atoi(s) == ParseInt(s).val

\* sscanf(line, "port: %d", &p): the literal "port:", then any white space,
\* then %d.  matched is the return value being 1.
SscanfPort(line) ==
    LET lit == S("port:")
    IN IF Take(line, Len(lit)) = lit
       THEN LET r == ParseInt(Drop(line, Len(lit)))
            IN [matched |-> r.ok, p |-> r.val]
       ELSE [matched |-> FALSE, p |-> 0]

\* fgets(line, size, f): at most size-1 bytes, ending after a newline.
FgetsLen(rest, size) ==
    LET nl == Strchr(rest, 10)
    IN IF nl # 0 /\ nl <= size - 1 THEN nl ELSE Min(size - 1, Len(rest))


(***************************************************************************)
(* The filesystem the program reads: fs.cwd is the working directory,      *)
(* fs.files maps each regular file's path to its bytes, fs.dirs are the    *)
(* directories, fs.diropen says whether fopen(dir, "r") succeeds (it does  *)
(* on Linux and macOS, where only the later read fails; it does not on     *)
(* Windows).  Paths are POSIX paths.                                       *)
(***************************************************************************)

\* The kernel's reading of a path: repeated slashes are one slash.
RECURSIVE Normalise(_)
Normalise(p) ==
    IF Len(p) < 2 THEN p
    ELSE IF p[1] = 47 /\ p[2] = 47 THEN Normalise(Drop(p, 1))
    ELSE <<p[1]>> \o Normalise(Drop(p, 1))

\* fopen(path, "r") # NULL
Fopen(fs, path) ==
    LET p == Normalise(path)
    IN \/ p \in DOMAIN fs.files
       \/ fs.diropen /\ p \in fs.dirs

\* The bytes a stream opened on path yields (a directory reads as nothing);
\* fread(buf, 1, cap, f) on a stream just opened takes the first cap bytes.
Contents(fs, path) ==
    LET p == Normalise(path)
    IN IF p \in DOMAIN fs.files THEN fs.files[p] ELSE <<>>

Fread(fs, path, cap) == Take(Contents(fs, path), cap)

(***************************************************************************)
(* find_codeplane_dir (lines 59-89)                                        *)
(***************************************************************************)
NotFound == [rc |-> 0 - 1, out |-> <<>>]

\* One pass of the for (;;) loop with the local cwd, to the return.
RECURSIVE FindLoop(_, _)
FindLoop(fs, cwd) ==
    LET probe1 == Stored(cwd \o S("/.codeplane"), MAX_PATH_LEN)
        probe2 == Stored(cwd \o S("/.codeplane/config.yaml"), MAX_PATH_LEN)
        found == [rc |-> 0, out |-> Stored(cwd \o S("/.codeplane"), MAX_PATH_LEN)]
        sep == Strrchr(cwd, 47)
    IN IF Fopen(fs, probe1) THEN found
       ELSE IF Fopen(fs, probe2) THEN found
       ELSE IF sep = 0 \/ sep = 1 THEN NotFound
       ELSE FindLoop(fs, Take(cwd, sep - 1))

\* getcwd fails when the path and its terminator do not fit.
find_codeplane_dir(fs) ==
    IF Len(fs.cwd) + 1 > MAX_PATH_LEN THEN NotFound ELSE FindLoop(fs, fs.cwd)

(***************************************************************************)
(* read_port (lines 92-121)                                                *)
(***************************************************************************)
DefaultPort == 7777

\* The while (fgets(...)) loop over config.yaml (lines 102-105).
RECURSIVE ScanYaml(_)
ScanYaml(rest) ==
    IF rest = <<>> THEN DefaultPort
    ELSE LET n == FgetsLen(rest, LINE_SIZE)
             r == SscanfPort(CStr(Take(rest, n)))
         IN IF r.matched THEN r.p ELSE ScanYaml(Drop(rest, n))

\* The branch taken when server.json cannot be opened (lines 96-108).
YamlPort(fs, cpl_dir) ==
    LET path == Stored(cpl_dir \o S("/config.yaml"), MAX_PATH_LEN)
    IN IF ~Fopen(fs, path) THEN DefaultPort
       ELSE ScanYaml(Contents(fs, path))

\* The scan of server.json's first bytes (lines 109-120).
JsonPort(buf) ==
    LET dq == Strstr(buf, S("\"port\""))
        sq == Strstr(buf, S("'port'"))
        pp == IF dq # 0 THEN dq ELSE sq
        colon == IF pp = 0 THEN 0 ELSE Strchr(Drop(buf, pp - 1), 58)
    IN IF pp # 0 /\ colon # 0
       THEN Atoi(Drop(buf, pp - 1 + colon))
       ELSE DefaultPort

read_port(fs, cpl_dir) ==
    LET path == Stored(cpl_dir \o S("/run/server.json"), MAX_PATH_LEN)
    IN IF ~Fopen(fs, path) THEN YamlPort(fs, cpl_dir)
       ELSE JsonPort(CStr(Fread(fs, path, JSON_BUF_SIZE - 1)))

(***************************************************************************)
(* read_token (lines 124-136)                                              *)
(***************************************************************************)
RECURSIVE TrimTrailing(_)
TrimTrailing(t) ==
    IF Len(t) > 0 /\ t[Len(t)] \in {10, 13, 32}
    THEN TrimTrailing(Take(t, Len(t) - 1))
    ELSE t

read_token(fs, cpl_dir, out_sz) ==
    LET path == Stored(cpl_dir \o S("/run/token"), MAX_PATH_LEN)
    IN IF ~Fopen(fs, path) THEN <<>>
       ELSE TrimTrailing(Fread(fs, path, out_sz - 1))

(***************************************************************************)
(* url_encode (lines 223-236)                                              *)
(***************************************************************************)
HexDigits == S("0123456789ABCDEF")

\* A "%%%02x" in place of "%%%02X".
PercentHexLower(c) ==
    LET digits == S("0123456789abcdef")
    IN <<37, digits[(c \div 16) + 1], digits[(c % 16) + 1]>>

\* snprintf's "%%%02X" of the byte c.
PercentHex(c) == <<37, HexDigits[(c \div 16) + 1], HexDigits[(c % 16) + 1]>>

Unreserved(c) ==
    \/ c \in 65..90
    \/ c \in 97..122
    \/ c \in 48..57
    \/ c \in {45, 95, 46, 126}

\* The while loop from source index k with dst[0..i) written, i = Len(dst).
RECURSIVE EncodeLoop(_, _, _, _)
EncodeLoop(src, k, dst, dst_sz) ==
    IF k <= Len(src) /\ Len(dst) + 4 < dst_sz
    THEN LET c == src[k]
         IN IF Unreserved(c)
            THEN EncodeLoop(src, k + 1, Append(dst, c), dst_sz)
            ELSE EncodeLoop(src, k + 1,
                            dst \o Stored(PercentHex(c), dst_sz - Len(dst)), dst_sz)
    ELSE dst

url_encode(src, dst_sz) == EncodeLoop(CStr(src), 1, <<>>, dst_sz)

(***************************************************************************)
(* find_arg (lines 249-254)                                                *)
(***************************************************************************)
NULL == <<0 - 1>>

\* argv is 1-based here: argv[1] is the program name, argc = Len(argv).
find_arg(argv, name) ==
    LET hits == {i \in 1..(Len(argv) - 1) : argv[i] = name}
    IN IF hits = {} THEN NULL
       ELSE argv[(CHOOSE i \in hits : \A j \in hits : i <= j) + 1]

(***************************************************************************)
(* The state of one invocation.                                            *)
(*   argv, fs, peer   the inputs: the command line, the filesystem, the    *)
(*                    bytes the daemon has still to send                   *)
(*   pc               the position in main / http_get                      *)
(*   cpl_dir .. pos   main's locals (lines 261-272, 296)                   *)
(*   exit_code        <<>> while running, <<status>> once the process ended *)
(*   out, err         standard output (bytes), standard error (messages)   *)
(*   net .. http_status   http_get's locals and the resources it holds;    *)
(*                    conn_port is the port connect was given, send_len    *)
(*                    the length send was given, recv_end why the receive  *)
(*                    loop was left                                        *)
(*   netops, faults   observers: the network calls made so far, and the    *)
(*                    memory and handle errors committed so far            *)
(*   call, ret        the argument and result of a function applied alone  *)
(***************************************************************************)
VARIABLES argv, fs, peer, pc, cpl_dir, port, token, enc1, enc2, url, pos,
          exit_code, out, err, net, sock, heap, req, req_len, send_len,
          conn_port, buf, total, recv_end, body, http_status, netops, faults,
          call, ret

inputv == <<argv, fs>>
mainv == <<cpl_dir, port, token, enc1, enc2, url, pos>>
iov == <<out, err>>
reqv == <<conn_port, req, req_len, send_len>>
recvv == <<buf, total, recv_end, body, http_status>>
resv == <<net, sock, heap>>
obsv == <<netops, faults>>
purev == <<call, ret>>
vars == <<inputv, peer, pc, mainv, exit_code, iov, reqv, recvv, resv, obsv, purev>>

URL_SIZE == MAX_URL_LEN
REQ_SIZE == MAX_URL_LEN + REQ_EXTRA

argc == Len(argv)
cmd == argv[2]

\* return <code> from main, after printing msgs to standard error.
Return(code, msgs) ==
    /\ pc' = "exit"
    /\ exit_code' = <<code>>
    /\ err' = err \o msgs

(***************************************************************************)
(* main (lines 256-324)                                                    *)
(***************************************************************************)
\* line 257
MainArgc ==
    /\ pc = "main"
    /\ IF argc < 2
       THEN Return(1, <<"usage">>)
       ELSE pc' = "find" /\ UNCHANGED <<exit_code, err>>
    /\ UNCHANGED <<inputv, peer, mainv, out, reqv, recvv, resv, obsv, purev>>

\* lines 261-265
MainFind ==
    /\ pc = "find"
    /\ LET r == find_codeplane_dir(fs)
       IN IF r.rc # 0
          THEN Return(1, <<"not found">>) /\ UNCHANGED cpl_dir
          ELSE pc' = "config" /\ cpl_dir' = r.out /\ UNCHANGED <<exit_code, err>>
    /\ UNCHANGED <<inputv, peer, port, token, enc1, enc2, url, pos, out,
                   reqv, recvv, resv, obsv, purev>>

\* lines 267-269
MainConfig ==
    /\ pc = "config"
    /\ port' = read_port(fs, cpl_dir)
    /\ token' = read_token(fs, cpl_dir, TOKEN_SIZE)
    /\ pc' = "dispatch"
    /\ UNCHANGED <<inputv, peer, cpl_dir, enc1, enc2, url, pos, exit_code, iov,
                   reqv, recvv, resv, obsv, purev>>

\* lines 274-284
MainList ==
    /\ pc = "dispatch"
    /\ cmd = S("list")
    /\ LET session == find_arg(argv, S("--session"))
           endpoint == find_arg(argv, S("--endpoint"))
           e1 == url_encode(session, ENC_SIZE)
           e2 == url_encode(endpoint, ENC_SIZE)
       IN IF session = NULL \/ endpoint = NULL
          THEN Return(1, <<"list: --session and --endpoint required">>)
               /\ UNCHANGED <<enc1, enc2, url>>
          ELSE /\ enc1' = e1
               /\ enc2' = e2
               /\ url' = Stored(S("/sidecar/cache/list?session=") \o e1
                                \o S("&endpoint=") \o e2, URL_SIZE)
               /\ pc' = "http_get"
               /\ UNCHANGED <<exit_code, err>>
    /\ UNCHANGED <<inputv, peer, cpl_dir, port, token, pos, out,
                   reqv, recvv, resv, obsv, purev>>

\* lines 286-296: the required argument, then the first snprintf
MainSliceCache ==
    /\ pc = "dispatch"
    /\ cmd = S("slice")
    /\ LET cache_id == find_arg(argv, S("--cache"))
           e1 == url_encode(cache_id, ENC_SIZE)
           text == S("/sidecar/cache/slice?cache=") \o e1
       IN IF cache_id = NULL
          THEN Return(1, <<"slice: --cache required">>)
               /\ UNCHANGED <<enc1, url, pos>>
          ELSE /\ enc1' = e1
               /\ url' = Stored(text, URL_SIZE)
               /\ pos' = Len(text)
               /\ pc' = "slice_path"
               /\ UNCHANGED <<exit_code, err>>
    /\ UNCHANGED <<inputv, peer, cpl_dir, port, token, enc2, out,
                   reqv, recvv, resv, obsv, purev>>

\* snprintf(url + pos, sizeof(url) - (size_t)pos, ...) of text, for
\* pos <= sizeof(url): the bytes of url after the call.  (With pos equal to
\* sizeof(url) the size is 0 and nothing is stored.)
AppendAt(text) ==
    IF pos < URL_SIZE
    THEN Take(url, pos) \o Stored(text, URL_SIZE - pos)
    ELSE url

\* lines 297-300
MainSlicePath ==
    /\ pc = "slice_path"
    /\ LET path == find_arg(argv, S("--path"))
           e2 == url_encode(path, ENC_SIZE)
           text == S("&path=") \o e2
       IN IF path # NULL
          THEN /\ enc2' = e2
               /\ url' = AppendAt(text)
               /\ pos' = pos + Len(text)
          ELSE UNCHANGED <<enc2, url, pos>>
    /\ pc' = "slice_max_bytes"
    /\ UNCHANGED <<inputv, peer, cpl_dir, port, token, enc1, exit_code, iov,
                   reqv, recvv, resv, obsv, purev>>

\* lines 301-303
MainSliceMaxBytes ==
    /\ pc = "slice_max_bytes"
    /\ LET max_bytes == find_arg(argv, S("--max-bytes"))
           text == S("&max_bytes=") \o max_bytes
       IN IF max_bytes # NULL
          THEN /\ url' = AppendAt(text)
               /\ pos' = pos + Len(text)
          ELSE UNCHANGED <<url, pos>>
    /\ pc' = "slice_offset"
    /\ UNCHANGED <<inputv, peer, cpl_dir, port, token, enc1, enc2, exit_code,
                   iov, reqv, recvv, resv, obsv, purev>>

\* lines 304-307.  With pos > sizeof(url) the call is handed a pointer past
\* the array and a size that wrapped: the write lands outside url.  The
\* build either ends the process there (a fortified snprintf or a fault
\* aborts it: status 134, SIGABRT) or carries on with url as it was.
MainSliceOffset ==
    /\ pc = "slice_offset"
    /\ LET offset == find_arg(argv, S("--offset"))
           text == S("&offset=") \o offset
       IN IF offset = NULL
          THEN pc' = "http_get" /\ UNCHANGED <<url, exit_code, err, faults>>
          ELSE IF pos <= URL_SIZE
          THEN /\ url' = AppendAt(text)
               /\ pc' = "http_get"
               /\ UNCHANGED <<exit_code, err, faults>>
          ELSE /\ faults' = faults \cup {"write outside url"}
               /\ \/ pc' = "http_get" /\ UNCHANGED <<url, exit_code, err>>
                  \/ Return(134, <<>>) /\ UNCHANGED url
    /\ UNCHANGED <<inputv, peer, cpl_dir, port, token, enc1, enc2, pos, out,
                   reqv, recvv, resv, netops, purev>>

\* lines 309-317
MainMeta ==
    /\ pc = "dispatch"
    /\ cmd = S("meta")
    /\ LET cache_id == find_arg(argv, S("--cache"))
           e1 == url_encode(cache_id, ENC_SIZE)
       IN IF cache_id = NULL
          THEN Return(1, <<"meta: --cache required">>)
               /\ UNCHANGED <<enc1, url>>
          ELSE /\ enc1' = e1
               /\ url' = Stored(S("/sidecar/cache/meta?cache=") \o e1, URL_SIZE)
               /\ pc' = "http_get"
               /\ UNCHANGED <<exit_code, err>>
    /\ UNCHANGED <<inputv, peer, cpl_dir, port, token, enc2, pos, out,
                   reqv, recvv, resv, obsv, purev>>

\* The unknown-command branch without its return 1: main runs off its end,
\* which returns 0.
MainUnknownNoReturn ==
    /\ pc = "dispatch"
    /\ cmd \notin {S("list"), S("slice"), S("meta")}
    /\ Return(0, <<"unknown command", "usage">>)
    /\ UNCHANGED <<inputv, peer, mainv, out, reqv, recvv, resv, obsv, purev>>

\* lines 319-323
MainUnknown ==
    /\ pc = "dispatch"
    /\ cmd \notin {S("list"), S("slice"), S("meta")}
    /\ Return(1, <<"unknown command", "usage">>)
    /\ UNCHANGED <<inputv, peer, mainv, out, reqv, recvv, resv, obsv, purev>>

(***************************************************************************)
(* http_get(port, url, token) (lines 139-220); its return value is main's. *)
(***************************************************************************)
Called(op) == netops' = netops \cup {op}

\* lines 140-143: net_init() is WSAStartup on Windows and can fail there
HttpNetInitFail ==
    /\ pc = "http_get"
    /\ Called("net_init")
    /\ Return(1, <<"network init failed">>)
    /\ UNCHANGED <<inputv, peer, mainv, out, reqv, recvv, resv, faults, purev>>

HttpNetInitOk ==
    /\ pc = "http_get"
    /\ Called("net_init")
    /\ net' = "up"
    /\ pc' = "socket"
    /\ UNCHANGED <<inputv, peer, mainv, exit_code, iov, reqv, recvv, sock, heap,
                   faults, purev>>

\* lines 145-150
HttpSocketFail ==
    /\ pc = "socket"
    /\ Called("socket")
    /\ net' = "down"
    /\ Return(1, <<"socket() failed">>)
    /\ UNCHANGED <<inputv, peer, mainv, out, reqv, recvv, sock, heap, faults,
                   purev>>

HttpSocketOk ==
    /\ pc = "socket"
    /\ Called("socket")
    /\ sock' = "open"
    /\ pc' = "connect"
    /\ UNCHANGED <<inputv, peer, mainv, exit_code, iov, reqv, recvv, net, heap,
                   faults, purev>>

\* CLOSE_SOCK(s): closing a socket that is not open is a fault.
CloseSock ==
    /\ sock' = "closed"
    /\ faults' = IF sock = "open" THEN faults ELSE faults \cup {"close of a socket not open"}

\* htons((unsigned short)port), line 155
PortOnWire(p) == p % 65536

\* The connect failure path without its CLOSE_SOCK(s).
HttpConnectFailNoClose ==
    /\ pc = "connect"
    /\ Called("connect")
    /\ conn_port' = PortOnWire(port)
    /\ net' = "down"
    /\ Return(1, <<"cannot connect">>)
    /\ UNCHANGED <<inputv, peer, mainv, out, req, req_len, send_len, recvv, sock,
                   heap, faults, purev>>

\* lines 158-163
HttpConnectFail ==
    /\ pc = "connect"
    /\ Called("connect")
    /\ conn_port' = PortOnWire(port)
    /\ CloseSock
    /\ net' = "down"
    /\ Return(1, <<"cannot connect">>)
    /\ UNCHANGED <<inputv, peer, mainv, out, req, req_len, send_len, recvv, heap,
                   purev>>

HttpConnectOk ==
    /\ pc = "connect"
    /\ Called("connect")
    /\ conn_port' = PortOnWire(port)
    /\ pc' = "format"
    /\ UNCHANGED <<inputv, peer, mainv, exit_code, iov, req, req_len, send_len,
                   recvv, resv, faults, purev>>

\* printf's %d
RECURSIVE DecDigits(_)
DecDigits(n) ==
    IF n < 10 THEN <<48 + n>> ELSE Append(DecDigits(n \div 10), 48 + (n % 10))

Dec(n) == IF n < 0 THEN <<45>> \o DecDigits(0 - n) ELSE DecDigits(n)

\* The text the request's format produces (lines 168-183).
RequestText(p, path_and_query, tok) ==
    S("GET ") \o CStr(path_and_query) \o S(" HTTP/1.0\r\n")
    \o S("Host: localhost:") \o Dec(p) \o S("\r\n")
    \o (IF CStr(tok) # <<>>
        THEN S("Authorization: Bearer ") \o CStr(tok) \o S("\r\n")
        ELSE <<>>)
    \o S("Accept: application/json\r\n")
    \o S("\r\n")

\* lines 165-183
HttpFormat ==
    /\ pc = "format"
    /\ req' = Stored(RequestText(port, url, token), REQ_SIZE)
    /\ req_len' = Len(RequestText(port, url, token))
    /\ pc' = "send"
    /\ UNCHANGED <<inputv, peer, mainv, exit_code, iov, conn_port, send_len,
                   recvv, resv, obsv, purev>>

\* line 185: send reads req[0 .. req_len); past sizeof(req) it reads the
\* stack above the array.  The result of send is not looked at.
HttpSend ==
    /\ pc = "send"
    /\ send_len' = req_len
    /\ netops' = netops \cup {"send"}
    /\ faults' = faults
                 \cup (IF req_len > REQ_SIZE THEN {"read outside req"} ELSE {})
                 \cup (IF sock # "open" THEN {"use of a socket not open"} ELSE {})
    /\ pc' = "malloc"
    /\ UNCHANGED <<inputv, peer, mainv, exit_code, iov, conn_port, req, req_len,
                   recvv, resv, purev>>

\* lines 188-190
HttpMallocFail ==
    /\ pc = "malloc"
    /\ CloseSock
    /\ net' = "down"
    /\ Return(1, <<>>)
    /\ UNCHANGED <<inputv, peer, mainv, out, reqv, recvv, heap, netops, purev>>

HttpMallocOk ==
    /\ pc = "malloc"
    /\ heap' = "allocated"
    /\ buf' = <<>>
    /\ total' = 0
    /\ pc' = "recv"
    /\ UNCHANGED <<inputv, peer, mainv, exit_code, iov, reqv, recv_end, body,
                   http_status, net, sock, obsv, purev>>

\* The size the loop hands recv (line 192).
Asked == BUF_SIZE - 1 - total

\* What each call of recv observes.
RecvCall ==
    /\ netops' = netops \cup {"recv"}
    /\ faults' = faults
                 \cup (IF Asked <= 0 THEN {"recv of no bytes"} ELSE {})
                 \cup (IF sock # "open" THEN {"use of a socket not open"} ELSE {})
                 \cup (IF heap # "allocated" THEN {"use of a buffer not allocated"} ELSE {})

\* lines 192-195: recv returns n > 0 bytes of what the peer sent
HttpRecvData ==
    /\ pc = "recv"
    /\ \E n \in 1..Min(Asked, Len(peer)) :
          /\ buf' = buf \o Take(peer, n)
          /\ peer' = Drop(peer, n)
          /\ total' = total + n
          /\ IF total + n >= BUF_SIZE - 1
             THEN pc' = "close" /\ recv_end' = "full"
             ELSE pc' = "recv" /\ UNCHANGED recv_end
    /\ RecvCall
    /\ UNCHANGED <<inputv, mainv, exit_code, iov, reqv, body, http_status, resv,
                   purev>>

\* lines 192-193: recv returns 0, the peer has closed (or no byte was asked)
HttpRecvClosed ==
    /\ pc = "recv"
    /\ peer = <<>> \/ Asked <= 0
    /\ recv_end' = "closed"
    /\ pc' = "close"
    /\ RecvCall
    /\ UNCHANGED <<inputv, peer, mainv, exit_code, iov, reqv, buf, total, body,
                   http_status, resv, purev>>

\* lines 192-193: recv returns -1
HttpRecvError ==
    /\ pc = "recv"
    /\ recv_end' = "error"
    /\ pc' = "close"
    /\ RecvCall
    /\ UNCHANGED <<inputv, peer, mainv, exit_code, iov, reqv, buf, total, body,
                   http_status, resv, purev>>

\* lines 197-199
HttpClose ==
    /\ pc = "close"
    /\ CloseSock
    /\ net' = "down"
    /\ pc' = "parse"
    /\ UNCHANGED <<inputv, peer, mainv, exit_code, iov, reqv, recvv, heap,
                   netops, purev>>

\* The response as the string functions see it: buf[total] = '\0' ends it,
\* and so does a NUL byte the peer sent.
Response == CStr(buf)

\* lines 201-207
BodyOf(b) ==
    LET i == Strstr(b, S("\r\n\r\n"))
    IN IF i # 0 THEN Drop(b, i + 3) ELSE b

\* lines 209-214
StatusOf(b) ==
    IF Take(b, 5) = S("HTTP/")
    THEN LET sp == Strchr(b, 32)
         IN IF sp # 0 THEN Atoi(Drop(b, sp)) ELSE 0
    ELSE 0

UseBuf(what) ==
    faults' = IF heap = "allocated" THEN faults ELSE faults \cup {what}

HttpParse ==
    /\ pc = "parse"
    /\ body' = BodyOf(Response)
    /\ http_status' = StatusOf(Response)
    /\ UseBuf("use of a buffer not allocated")
    /\ pc' = "print"
    /\ UNCHANGED <<inputv, peer, mainv, exit_code, iov, reqv, buf, total,
                   recv_end, resv, netops, purev>>

\* line 216
HttpPrint ==
    /\ pc = "print"
    /\ out' = out \o body \o <<10>>
    /\ UseBuf("use of a buffer not allocated")
    /\ pc' = "free"
    /\ UNCHANGED <<inputv, peer, mainv, exit_code, err, reqv, recvv, resv,
                   netops, purev>>

\* line 217
HttpFree ==
    /\ pc = "free"
    /\ heap' = "freed"
    /\ UseBuf("free of a buffer not allocated")
    /\ pc' = "return"
    /\ UNCHANGED <<inputv, peer, mainv, exit_code, iov, reqv, recvv, net, sock,
                   netops, purev>>

\* line 219
HttpReturn ==
    /\ pc = "return"
    /\ Return(IF http_status >= 200 /\ http_status < 300 THEN 0 ELSE 1, <<>>)
    /\ UNCHANGED <<inputv, peer, mainv, out, reqv, recvv, resv, obsv, purev>>

(***************************************************************************)
(* Inputs.                                                                 *)
(***************************************************************************)
Absent == <<0 - 1>>

\* All concatenations of at most n members of frags.
RECURSIVE Concats(_, _)
Concats(frags, n) ==
    IF n = 0 THEN {<<>>}
    ELSE LET shorter == Concats(frags, n - 1)
         IN shorter \cup {a \o f : a \in shorter, f \in frags}

\* The function with the given set of <<argument, value>> pairs.
FromPairs(pairs) ==
    [k \in {e[1] : e \in pairs} |-> (CHOOSE e \in pairs : e[1] = k)[2]]

\* A filesystem with the working directory cwd and, under root (when kind is
\* not "none"), a .codeplane that is a regular file (kind "file") or a
\* directory (kind "dir") holding the files given (each Absent or its bytes).
MkWorld(cwd, root, kind, json, yaml, tok, diropen) ==
    LET cp == Normalise(root \o S("/.codeplane"))
        under == {<<cp \o S("/config.yaml"), yaml>>,
                  <<cp \o S("/run/server.json"), json>>,
                  <<cp \o S("/run/token"), tok>>}
        entries == IF kind = "file" THEN {<<cp, <<>>>>}
                   ELSE IF kind = "dir" THEN {e \in under : e[2] # Absent}
                   ELSE {}
    IN [cwd |-> cwd,
        files |-> FromPairs(entries),
        dirs |-> {S("/"), S("/r"), S("/r/s")}
                 \cup (IF kind = "dir" THEN {cp, cp \o S("/run")} ELSE {}),
        diropen |-> diropen]

Digits40 == S("1234567890123456789012345678901234567890")

\* Values for the percent-encoded parameters, and for the raw ones.
TextValues == {S("abc"), S("a b"), S("x/y"), S("a&b=c"), S("abcdefghij"), <<195, 169>>}
RawValues == {S("10"), S("-1"), S("1 2"), S("1\r\nX: y"), Digits40}

prog == S("cpljson")
Opt(name, v) == IF v = Absent THEN <<>> ELSE <<S(name), v>>

ListArgvs ==
    {<<prog, S("list")>> \o Opt("--session", s) \o Opt("--endpoint", e) :
        s \in {Absent, S("a b"), S("abcdefghij")}, e \in {Absent, S("x/y"), S("a&b=c")}}

SliceArgvs ==
    {<<prog, S("slice")>> \o Opt("--cache", c) \o Opt("--path", q)
        \o Opt("--max-bytes", m) \o Opt("--offset", o) :
        c \in {Absent} \cup TextValues, q \in {Absent, S("x/y"), S("abcdefghij")},
        m \in {Absent} \cup RawValues, o \in {Absent, S("0"), S("1 2"), Digits40}}

MetaArgvs ==
    {<<prog, S("meta")>> \o Opt("--cache", c) : c \in {Absent} \cup TextValues}

\* No subcommand, an unknown one, a flag without a value, a flag given
\* twice, out of order, and a flag whose value is a flag's name.
OddArgvs ==
    {<<prog>>,
     <<prog, S("bogus")>>,
     <<prog, S("bogus"), S("--cache"), S("abc")>>,
     <<prog, S("meta"), S("--cache")>>,
     <<prog, S("list"), S("--endpoint"), S("e"), S("--session"), S("a"), S("--session"), S("b")>>,
     <<prog, S("slice"), S("--cache"), S("--path"), S("p")>>}

RichArgvs == ListArgvs \cup SliceArgvs \cup MetaArgvs \cup OddArgvs
BasicArgvs == {<<prog, S("slice"), S("--cache"), S("abc")>>,
               <<prog, S("slice"), S("--cache"), S("abc"), S("--max-bytes"), Digits40>>}

BasicWorld ==
    MkWorld(S("/r/s"), S("/r"), "dir", S("{\"port\": 9999}"), Absent, Absent, TRUE)

Token20 == S("0123456789abcdefghij")

RichWorlds ==
    {MkWorld(cwd, root, kind, json, yaml, tok, TRUE) :
        cwd \in {S("/"), S("/r/s")},
        root \in {S("/"), S("/r")},
        kind \in {"none", "file", "dir"},
        json \in {Absent, S("{\"port\": 9999}"), S("{\"port\": 0}"),
                  S("{\"port\":70000}"), S("{\"host\": 1}"), S("{'port' : -5}")},
        yaml \in {Absent, S("port: 4242\n")},
        tok \in {Absent, S("tok \r\n"), Token20}}

BasicPeers == {S("HTTP/1.0 200 OK\r\n\r\n{}"), S("HTTP/1.0 404 NF\r\n\r\n")}

PeerFrags == {S("HTTP/1.0"), S(" 200 "), S(" 404 "), S("\r\n\r\n{}"), S("\r\nA: 204"),
              <<97, 0, 98>>}
RichPeers == Concats(PeerFrags, MaxPeerFrags)

Inputs ==
    (RichArgvs \X {BasicWorld} \X BasicPeers)
    \cup (BasicArgvs \X RichWorlds \X {S("HTTP/1.0 200 OK\r\n\r\n{}")})
    \cup ({<<prog, S("meta"), S("--cache"), S("abc")>>} \X {BasicWorld} \X RichPeers)

(***************************************************************************)
(* The program: one invocation from the entry of main to the exit.         *)
(***************************************************************************)
NoCall == [fn |-> "none"]

InitLocals ==
    /\ cpl_dir = <<>> /\ port = 0 /\ token = <<>>
    /\ enc1 = <<>> /\ enc2 = <<>> /\ url = <<>> /\ pos = 0
    /\ exit_code = <<>> /\ out = <<>> /\ err = <<>>
    /\ net = "down" /\ sock = "none" /\ heap = "none"
    /\ conn_port = 0 /\ req = <<>> /\ req_len = 0 /\ send_len = 0
    /\ buf = <<>> /\ total = 0 /\ recv_end = "" /\ body = <<>> /\ http_status = 0
    /\ netops = {} /\ faults = {}

Init ==
    /\ \E i \in Inputs : argv = i[1] /\ fs = i[2] /\ peer = i[3]
    /\ pc = "main"
    /\ InitLocals
    /\ call = NoCall /\ ret = NoCall

Next ==
    \/ MainArgc
    \/ MainFind
    \/ MainConfig
    \/ MainList
    \/ MainSliceCache
    \/ MainSlicePath
    \/ MainSliceMaxBytes
    \/ MainSliceOffset
    \/ MainMeta
    \/ MainUnknown
    \/ HttpNetInitFail
    \/ HttpNetInitOk
    \/ HttpSocketFail
    \/ HttpSocketOk
    \/ HttpConnectFail
    \/ HttpConnectOk
    \/ HttpFormat
    \/ HttpSend
    \/ HttpMallocFail
    \/ HttpMallocOk
    \/ HttpRecvData
    \/ HttpRecvClosed
    \/ HttpRecvError
    \/ HttpClose
    \/ HttpParse
    \/ HttpPrint
    \/ HttpFree
    \/ HttpReturn

Spec == Init /\ [][Next]_vars

(***************************************************************************)
(* The functions applied alone: call holds the argument, ret the result.   *)
(* The program's own state stays as at entry.                              *)
(***************************************************************************)
Idle ==
    /\ argv = <<prog>> /\ fs = BasicWorld /\ peer = <<>>
    /\ pc = "idle"
    /\ InitLocals

idlev == <<inputv, peer, pc, mainv, exit_code, iov, reqv, recvv, resv, obsv>>

\* url_encode(src, dst, dst_sz)
SrcBytes == {65, 122, 48, 45, 32, 37, 47, 10, 255}
Sources == UNION {[1..n -> SrcBytes] : n \in 0..MaxSrcLen}

InitEncode ==
    /\ Idle
    /\ call \in [fn : {"url_encode"}, src : Sources, dst_sz : 1..MaxDstSize]
    /\ ret = NoCall

Encode ==
    /\ call.fn = "url_encode"
    /\ ret = NoCall
    /\ ret' = [fn |-> "url_encode", dst |-> url_encode(call.src, call.dst_sz)]
    /\ UNCHANGED <<idlev, call>>

SpecEncode == InitEncode /\ [][Encode]_vars

\* find_codeplane_dir(out, out_sz): the working directory is /a/b/c or one
\* of its ancestors; each of the four directories holds no .codeplane, a
\* regular file .codeplane, or a directory .codeplane with or without a
\* config.yaml in it.
LocateDirs == <<S("/"), S("/a"), S("/a/b"), S("/a/b/c")>>
MarkerKinds == {"none", "file", "dir with config", "dir without config"}

LocateWorld(cwd, kinds, diropen) ==
    LET cp(i) == Normalise(LocateDirs[i] \o S("/.codeplane"))
        idx == 1..Len(LocateDirs)
    IN [cwd |-> cwd,
        files |-> FromPairs({<<cp(i), <<>>>> : i \in {j \in idx : kinds[j] = "file"}}
                            \cup {<<cp(i) \o S("/config.yaml"), S("port: 1\n")>> :
                                     i \in {j \in idx : kinds[j] = "dir with config"}}),
        dirs |-> {LocateDirs[i] : i \in idx}
                 \cup {cp(i) : i \in {j \in idx : kinds[j] \in {"dir with config",
                                                              "dir without config"}}},
        diropen |-> diropen]

InitLocate ==
    /\ Idle
    /\ \E i \in 1..Len(LocateDirs), kinds \in [1..Len(LocateDirs) -> MarkerKinds],
          diropen \in BOOLEAN :
          call = [fn |-> "find_codeplane_dir",
                  fs |-> LocateWorld(LocateDirs[i], kinds, diropen)]
    /\ ret = NoCall

Locate ==
    /\ call.fn = "find_codeplane_dir"
    /\ ret = NoCall
    /\ ret' = [fn |-> "find_codeplane_dir", r |-> find_codeplane_dir(call.fs)]
    /\ UNCHANGED <<idlev, call>>

SpecLocate == InitLocate /\ [][Locate]_vars

\* read_port(cpl_dir) with cpl_dir = /r/.codeplane: run/server.json and
\* config.yaml are each absent or made of a few fragments.
JsonFrags == {S("{"), S("\"port\""), S("'port'"), S(":"), S(" 9999"), S("0}"), S("\"host\"")}
YamlFrags == {S("port:"), S("port: 4242"), S(" 70000"), S("\n"), S("x"), S("-1")}
JsonFiles == {Absent} \cup Concats(JsonFrags, MaxJsonFrags)
YamlFiles == {Absent} \cup Concats(YamlFrags, MaxYamlFrags)

InitPort ==
    /\ Idle
    /\ \E json \in JsonFiles, yaml \in YamlFiles :
          call = [fn |-> "read_port", json |-> json, yaml |-> yaml,
                  fs |-> MkWorld(S("/r"), S("/r"), "dir", json, yaml, Absent, TRUE),
                  cpl_dir |-> S("/r/.codeplane")]
    /\ ret = NoCall

Port ==
    /\ call.fn = "read_port"
    /\ ret = NoCall
    /\ ret' = [fn |-> "read_port", port |-> read_port(call.fs, call.cpl_dir)]
    /\ UNCHANGED <<idlev, call>>

SpecPort == InitPort /\ [][Port]_vars

(***************************************************************************)
(* The properties.                                                         *)
(***************************************************************************)
SetOf(s) == {s[i] : i \in 1..Len(s)}
IsPrefix(a, b) == Len(a) <= Len(b) /\ Take(b, Len(a)) = a

\* The unreserved set [A-Za-z0-9._~-] and the bytes an encoded value may hold.
UnreservedSet ==
    SetOf(S("ABCDEFGHIJKLMNOPQRSTUVWXYZabcdefghijklmnopqrstuvwxyz0123456789._~-"))
EncodedSet == UnreservedSet \cup {37}

\* Standard percent-decoding.
HexValue(c) ==
    IF c \in 48..57 THEN c - 48
    ELSE IF c \in 65..70 THEN c - 55
    ELSE IF c \in 97..102 THEN c - 87
    ELSE 0 - 1

RECURSIVE PercentDecode(_)
PercentDecode(s) ==
    IF s = <<>> THEN <<>>
    ELSE IF s[1] = 37 /\ Len(s) >= 3 /\ HexValue(s[2]) >= 0 /\ HexValue(s[3]) >= 0
    THEN <<16 * HexValue(s[2]) + HexValue(s[3])>> \o PercentDecode(Drop(s, 3))
    ELSE <<s[1]>> \o PercentDecode(Drop(s, 1))

\* The encoded form the contract gives a whole string: unreserved bytes
\* unchanged, every other byte %XX in uppercase hexadecimal.
UpperHex == S("0123456789ABCDEF")
RECURSIVE Encoded(_)
Encoded(s) ==
    IF s = <<>> THEN <<>>
    ELSE (IF s[1] \in UnreservedSet THEN <<s[1]>>
          ELSE <<37, UpperHex[(s[1] \div 16) + 1], UpperHex[(s[1] % 16) + 1]>>)
         \o Encoded(Drop(s, 1))

(***************************************************************************)
(* C3.  A missing subcommand, an unknown subcommand, a missing required    *)
(* argument (--session or --endpoint for list, --cache for slice and meta) *)
(* or no configuration root: the invocation ends with exit code 1 and no   *)
(* network init, socket, connect, send or recv is ever executed.           *)
(***************************************************************************)
\* The flag is on the command line with a token after it.
Given(flag) == \E i \in 1..(Len(argv) - 1) : argv[i] = S(flag)

UsageError ==
    \/ Len(argv) < 2
    \/ /\ Len(argv) >= 2
       /\ \/ argv[2] \notin {S("list"), S("slice"), S("meta")}
          \/ argv[2] = S("list") /\ ~(Given("--session") /\ Given("--endpoint"))
          \/ argv[2] \in {S("slice"), S("meta")} /\ ~Given("--cache")

NoConfigRoot == find_codeplane_dir(fs).rc # 0

\* C3: a usage error or a missing .codeplane directory ends the run with
\* exit code 1 before any network call is made.
C3_NoNetworkOnUsageError ==
    (pc # "idle" /\ (UsageError \/ NoConfigRoot)) =>
        /\ netops = {}
        /\ sock = "none" /\ net = "down" /\ heap = "none"
        /\ pc \in {"main", "find", "config", "dispatch", "exit"}
        /\ pc = "exit" => exit_code = <<1>>

\* dispatch(["meta"]) has ended: exit code 1, no network call made.
C3_Witness ==
    /\ argv = <<prog, S("meta")>>
    /\ pc = "exit"
    /\ exit_code = <<1>>
    /\ netops = {}

(***************************************************************************)
(* C4.  On every exit path of http_get (network init failure, socket       *)
(* failure, connect failure, allocation failure, normal completion) the    *)
(* socket that was opened is closed and the buffer that was allocated is   *)
(* freed when the operation returns; neither is released twice or used     *)
(* after release.                                                          *)
(***************************************************************************)
C4_ResourcesReleased ==
    /\ pc = "exit" => sock \in {"none", "closed"} /\ heap \in {"none", "freed"}
    /\ faults \cap {"close of a socket not open", "use of a socket not open",
                    "use of a buffer not allocated",
                    "free of a buffer not allocated"} = {}

\* http_get has returned after a complete exchange, and after a failed connect.
C4_Witness ==
    /\ pc = "exit"
    /\ sock = "closed"
    /\ \/ heap = "freed" /\ "recv" \in netops
       \/ heap = "none" /\ "connect" \in netops /\ "send" \notin netops

(***************************************************************************)
(* C7.  url_encode's output holds only bytes of [A-Za-z0-9._~%-]           *)
(* (unreserved bytes unchanged, every other byte %XX in uppercase hex),    *)
(* with its terminator it never exceeds the destination capacity, and      *)
(* percent-decoding it gives the input back.                               *)
(***************************************************************************)
\* C7 as claimed: the round trip for every input shorter than the capacity.
C7_RoundTripBelowCapacity ==
    ret.fn = "url_encode" =>
        /\ SetOf(ret.dst) \subseteq EncodedSet
        /\ Len(ret.dst) + 1 <= call.dst_sz
        /\ Len(call.src) < call.dst_sz => PercentDecode(ret.dst) = call.src

\* C7 as amended: the output is the encoded form of a prefix of the input,
\* and of the whole input when four times its length is below the capacity.
C7_RoundTripQuarterCapacity ==
    ret.fn = "url_encode" =>
        /\ SetOf(ret.dst) \subseteq EncodedSet
        /\ Len(ret.dst) + 1 <= call.dst_sz
        /\ \E k \in 0..Len(call.src) :
              /\ ret.dst = Encoded(Take(call.src, k))
              /\ PercentDecode(ret.dst) = Take(call.src, k)
        /\ 4 * Len(call.src) < call.dst_sz =>
              /\ ret.dst = Encoded(call.src)
              /\ PercentDecode(ret.dst) = call.src

\* Three bytes that all need encoding, in a destination of 13 bytes.
C7_Witness ==
    /\ ret.fn = "url_encode"
    /\ call.src = <<32, 37, 255>>
    /\ call.dst_sz = 13
    /\ ret.dst = S("%20%25%FF")

(***************************************************************************)
(* C1.  The exit code is 0 if and only if a connection was established     *)
(* and the status code parsed from the first response line is in           *)
(* [200, 300); every other outcome yields exit code 1.                     *)
(***************************************************************************)
\* The first line of the response, and the status code on it: the number
\* after the first space, if the line begins with the HTTP version prefix.
FirstLine(b) ==
    LET i == Strstr(b, S("\r\n"))
    IN IF i = 0 THEN b ELSE Take(b, i - 1)

FirstLineStatus(b) ==
    LET line == FirstLine(b)
        sp == Strchr(line, 32)
    IN IF Take(line, 5) = S("HTTP/") /\ sp # 0 THEN Atoi(Drop(line, sp)) ELSE 0

Connected == "send" \in netops

\* C1: the exit code is 0 exactly when a connection was made and the first
\* response line carries a status in 200..299, and 1 on every other outcome.
C1_ExitCodeIffSuccess ==
    pc = "exit" =>
        /\ exit_code \in {<<0>>, <<1>>}
        /\ exit_code = <<0>> <=>
              (Connected /\ FirstLineStatus(buf) >= 200 /\ FirstLineStatus(buf) < 300)

(***************************************************************************)
(* C2.  Whenever run/server.json is absent, or present without a "port"    *)
(* or 'port' key, the port is that of the first line of config.yaml        *)
(* matching port: <integer>; 7777 only when neither source yields a value. *)
(***************************************************************************)
LacksPortKey(json) ==
    Strstr(json, S("\"port\"")) = 0 /\ Strstr(json, S("'port'")) = 0

\* The lines of a text, split at its newlines.
RECURSIVE LinesOf(_)
LinesOf(text) ==
    LET nl == Strchr(text, 10)
    IN IF text = <<>> THEN <<>>
       ELSE IF nl = 0 THEN <<text>>
       ELSE <<Take(text, nl)>> \o LinesOf(Drop(text, nl))

\* The first line that matches port: <integer> gives the port.
ConfigYamlPort(yaml) ==
    LET lines == IF yaml = Absent THEN <<>> ELSE LinesOf(yaml)
        hits == {i \in 1..Len(lines) : SscanfPort(lines[i]).matched}
    IN IF hits = {} THEN DefaultPort
       ELSE SscanfPort(lines[CHOOSE i \in hits : \A j \in hits : i <= j]).p

\* C2: when run/server.json is absent or lacks the port key, the port is the
\* one config.yaml gives, and 7777 when config.yaml gives none.
C2_FallsBackToConfigYaml ==
    (ret.fn = "read_port" /\ (call.json = Absent \/ LacksPortKey(call.json))) =>
        ret.port = ConfigYamlPort(call.yaml)

(***************************************************************************)
(* C5.  In every request path handed to http_get the values of --session,  *)
(* --endpoint, --cache and --path appear only percent-encoded and those of *)
(* --max-bytes and --offset only as digits with an optional sign: no       *)
(* space, CR, LF, '&' or '=' from the command line reaches the path.       *)
(***************************************************************************)
RECURSIVE SplitAt(_, _)
SplitAt(s, sep) ==
    LET i == Strchr(s, sep)
    IN IF i = 0 THEN <<s>> ELSE <<Take(s, i - 1)>> \o SplitAt(Drop(s, i), sep)

IsNumberToken(v) ==
    LET digits == IF v # <<>> /\ v[1] \in {43, 45} THEN Drop(v, 1) ELSE v
    IN digits # <<>> /\ \A i \in 1..Len(digits) : IsDigit(digits[i])

\* key=value with an encoded value or, for the two numbers, a number token.
WellFormedParam(q) ==
    \/ \E key \in {S("session="), S("endpoint="), S("cache="), S("path=")} :
          IsPrefix(key, q) /\ SetOf(Drop(q, Len(key))) \subseteq EncodedSet
    \/ \E key \in {S("max_bytes="), S("offset=")} :
          IsPrefix(key, q) /\ IsNumberToken(Drop(q, Len(key)))

WellFormedPath(u) ==
    LET q == Strchr(u, 63)
        params == SplitAt(Drop(u, q), 38)
    IN /\ q # 0
       /\ Take(u, q) \in {S("/sidecar/cache/list?"), S("/sidecar/cache/slice?"),
                          S("/sidecar/cache/meta?")}
       /\ \A i \in 1..Len(params) : WellFormedParam(params[i])

\* C5: every value the request path carries is percent-encoded, or is a
\* validated number where it is inserted as given.
C5_PathValuesEncodedOrValidated ==
    pc = "http_get" => WellFormedPath(url)

(***************************************************************************)
(* C6.  locate examines the start directory and each parent up to and      *)
(* including the filesystem root, returns <dir>/.codeplane for the nearest *)
(* examined directory with a .codeplane marker or a .codeplane/config.yaml,*)
(* and NotFound only when no directory on that chain has one.              *)
(***************************************************************************)
\* dir and its ancestors, nearest first, the root last.
RECURSIVE ChainOf(_)
ChainOf(dir) ==
    LET sep == Strrchr(dir, 47)
    IN IF dir = S("/") THEN <<dir>>
       ELSE <<dir>> \o ChainOf(IF sep = 1 THEN S("/") ELSE Take(dir, sep - 1))

HasMarker(w, dir) ==
    \/ Fopen(w, dir \o S("/.codeplane"))
    \/ Fopen(w, dir \o S("/.codeplane/config.yaml"))

Located(w) ==
    LET chain == ChainOf(w.cwd)
        hits == {i \in 1..Len(chain) : HasMarker(w, chain[i])}
    IN IF hits = {} THEN NotFound
       ELSE [rc |-> 0,
             out |-> chain[CHOOSE i \in hits : \A j \in hits : i <= j] \o S("/.codeplane")]

\* C6: the directory returned is the .codeplane of the nearest ancestor of
\* the working directory, the root included, that holds one.
C6_NearestMarkedAncestor ==
    ret.fn = "find_codeplane_dir" => ret.r = Located(call.fs)

(***************************************************************************)
(* C8.  Whatever run/server.json and config.yaml hold, the port resolved   *)
(* and used for the connect and the Host header is in 1..65535.            *)
(***************************************************************************)
C8_PortInRange ==
    "connect" \in netops => port \in 1..65535 /\ conn_port = port

(***************************************************************************)
(* C9.  The receive loop keeps the received count at most BUF_SIZE - 1,    *)
(* never asks recv for zero bytes, and stops exactly when the peer closes, *)
(* a receive error occurs or the buffer is full; after a receive error the *)
(* body received so far is still printed once, followed by a newline.      *)
(***************************************************************************)
\* The body of what was received: what follows the first blank line, or
\* everything when there is none.
ReceivedBody(b) ==
    LET i == Strstr(b, S("\r\n\r\n"))
    IN IF i # 0 THEN Drop(b, i + 3) ELSE b

\* C9: the receive loop keeps total within the buffer, never asks for zero
\* bytes, ends on close, error or a full buffer, and the received body is
\* then printed followed by a newline.
C9_ReceiveLoopAndPrint ==
    /\ total <= BUF_SIZE - 1 /\ total = Len(buf)
    /\ "recv of no bytes" \notin faults
    /\ pc = "recv" => total < BUF_SIZE - 1 /\ recv_end = ""
    /\ pc \in {"close", "parse", "print", "free", "return"} =>
          /\ recv_end \in {"closed", "error", "full"}
          /\ recv_end = "full" <=> total = BUF_SIZE - 1
          /\ recv_end = "closed" => peer = <<>>
    /\ pc \in {"free", "return"} => out = ReceivedBody(buf) \o <<10>>

(***************************************************************************)
(* C10.  While the slice path is built the running write offset never      *)
(* exceeds the URL buffer's capacity minus one and the remaining space     *)
(* passed to each append never underflows; the length passed to send never *)
(* exceeds the size of the request buffer.                                 *)
(***************************************************************************)
C10_OffsetsWithinBuffers ==
    /\ pos <= URL_SIZE - 1
    /\ "write outside url" \notin faults
    /\ send_len <= REQ_SIZE
    /\ "read outside req" \notin faults

=============================================================================
